---- MODULE Spec2Model ----
(***************************************************************************)
(* Model of functions/data_processor.py: the partitioned parquet store,    *)
(* get_parquet_paths, convert_price_to_raw, adjust_price and their batch   *)
(* variants.                                                               *)
(*                                                                         *)
(* A DataFrame is a sequence of rows; a row is a function from column      *)
(* names to values, with the index kept under "ts" (an integer yyyymmdd).  *)
(* float64 values are exact rationals <<n, d>> with d > 0 in lowest terms, *)
(* so products and quotients are compared exactly.                         *)
(* A path is the sequence of its '/'-separated components.                 *)
(*                                                                         *)
(* Stored closes are positive, so no quotient has a zero divisor, and      *)
(* timestamps are unique within a series.  get_parquet_paths is modelled   *)
(* for a given ticker, which is how every function of the module calls it. *)
(***************************************************************************)
EXTENDS Integers, Sequences, FiniteSets, TLC

VARIABLES
    fs,        \* the file system: directories and parquet files
    base,      \* the base directory the price data is stored under
    ret,       \* what the last call returned or raised
    lastCall,  \* the last call and its arguments
    calls      \* number of calls made

vars == <<fs, base, ret, lastCall, calls>>

(***************************************************************************)
(* Bounds of the exploration.                                              *)
(***************************************************************************)
MaxLen == 3        \* records of a stored series with dividends and splits
MaxSplitLen == 4   \* records of a stored series with split events only
MaxCalls == 2      \* a call, then repetitions of a persisting call

(***************************************************************************)
(* Exact arithmetic for float64 columns.                                   *)
(***************************************************************************)
Abs(x) == IF x < 0 THEN -x ELSE x

RECURSIVE GCD(_, _)
GCD(a, b) == IF b = 0 THEN a ELSE GCD(b, a % b)

Norm(n, d) ==
    LET g == GCD(Abs(n), Abs(d))
        s == IF d < 0 THEN -1 ELSE 1
    IN  <<(s * n) \div g, (s * d) \div g>>

R(n) == <<n, 1>>
RMul(a, b) == Norm(a[1] * b[1], a[2] * b[2])
RDiv(a, b) == Norm(a[1] * b[2], a[2] * b[1])
RSub(a, b) == Norm(a[1] * b[2] - b[1] * a[2], a[2] * b[2])

\* numpy float -> int64 conversion truncates toward zero
Trunc(a) == IF a[1] >= 0 THEN R(a[1] \div a[2]) ELSE R(-((-a[1]) \div a[2]))

(***************************************************************************)
(* Column schema.                                                          *)
(***************************************************************************)
DEFAULT_DTYPE_DICT ==
    [c \in {"ticker", "open", "high", "low", "close", "volume", "adj close",
            "dividends", "stock splits"} |->
        IF c = "ticker" THEN "str"
        ELSE IF c = "volume" THEN "int64" ELSE "float64"]

DefaultAdjustCols == {"open", "high", "low", "close", "dividends"}

SplitColName == "stock splits"

FactorCols == {"adjust_factor", "cum_adj_factor"}

astype(v, dtype) == IF dtype = "int64" THEN Trunc(v) ELSE v

(***************************************************************************)
(* pandas building blocks.                                                 *)
(***************************************************************************)
RemoveAt(s, i) == SubSeq(s, 1, i - 1) \o SubSeq(s, i + 1, Len(s))

RECURSIVE sort_index(_, _)
sort_index(df, ascending) ==
    IF df = <<>> THEN <<>>
    ELSE LET i == CHOOSE k \in 1..Len(df) :
                     \A j \in 1..Len(df) :
                        IF ascending THEN df[k]["ts"] <= df[j]["ts"]
                                     ELSE df[k]["ts"] >= df[j]["ts"]
         IN  <<df[i]>> \o sort_index(RemoveAt(df, i), ascending)

RECURSIVE Prod(_, _)
Prod(s, n) == IF n = 0 THEN R(1) ELSE RMul(Prod(s, n - 1), s[n])

cumprod(s) == [i \in 1..Len(s) |-> Prod(s, i)]

shift_fillna(s, fill) == [i \in 1..Len(s) |-> IF i = 1 THEN fill ELSE s[i - 1]]

Column(df, c) == [i \in 1..Len(df) |-> df[i][c]]

\* df[c] = s : assign (or add) column c from the aligned series s
SetColumn(df, c, s) ==
    [i \in 1..Len(df) |->
        [k \in (DOMAIN df[i]) \cup {c} |-> IF k = c THEN s[i] ELSE df[i][k]]]

DropColumns(df, cs) ==
    [i \in 1..Len(df) |-> [k \in (DOMAIN df[i]) \ cs |-> df[i][k]]]

\* .apply(lambda x: 1 if x == 0 else x)
adjust_factor(x) == IF x = R(0) THEN R(1) ELSE x

\* faulty variant: the running product without the shift, which includes the
\* row's own split
cum_adj_factor_unshifted(factors) == cumprod(factors)

\* cumprod().shift(1).fillna(1)
cum_adj_factor(factors) == shift_fillna(cumprod(factors), R(1))

\* faulty variant: the dividend of the next older row, 0 on the oldest
fwd_div_from_older(dividends) ==
    [i \in 1..Len(dividends) |->
        IF i = Len(dividends) THEN R(0) ELSE dividends[i + 1]]

\* ticker_df['dividends'].shift(1).fillna(0)
fwd_div(dividends) == shift_fillna(dividends, R(0))

\* 1 - (fwd_div / close)
retention_rate(fwd, close) == RSub(R(1), RDiv(fwd, close))

\* faulty variant: the running product shifted like the split factor
accum_retention_shifted(rates) == shift_fillna(cumprod(rates), R(1))

\* ticker_df['retention_rate'].cumprod()
accum_retention(rates) == cumprod(rates)

\* the two factor columns, on a frame already sorted newest first
AddFactorColumns(df, split_col_name) ==
    LET af == [i \in 1..Len(df) |-> adjust_factor(df[i][split_col_name])]
    IN  SetColumn(SetColumn(df, "adjust_factor", af),
                  "cum_adj_factor", cum_adj_factor(af))

\* ticker_df[col] = ticker_df[col] * ticker_df['cum_adj_factor']
MultiplyColumns(df, cols) ==
    [i \in 1..Len(df) |->
        [k \in DOMAIN df[i] |->
            IF k \in cols THEN RMul(df[i][k], df[i]["cum_adj_factor"])
            ELSE df[i][k]]]

\* ticker_df[col] = ticker_df[col] / ticker_df['cum_adj_factor']
DivideColumns(df, cols) ==
    [i \in 1..Len(df) |->
        [k \in DOMAIN df[i] |->
            IF k \in cols THEN RDiv(df[i][k], df[i]["cum_adj_factor"])
            ELSE df[i][k]]]

CastColumns(df, dtype_dict) ==
    [i \in 1..Len(df) |->
        [k \in DOMAIN df[i] |->
            IF k \in DOMAIN dtype_dict THEN astype(df[i][k], dtype_dict[k])
            ELSE df[i][k]]]

(***************************************************************************)
(* The transformation of convert_price_to_raw between load and save.       *)
(***************************************************************************)
\* faulty variant: without the final sort_index() the frame stays newest first
ConvertFrameNoResort(loaded, adjust_cols, split_col_name, remove_columns) ==
    LET d0 == sort_index(loaded, FALSE)
        d1 == AddFactorColumns(d0, split_col_name)
        d2 == MultiplyColumns(d1, adjust_cols)
        d4 == CastColumns(d2, DEFAULT_DTYPE_DICT)
    IN  IF remove_columns THEN DropColumns(d4, FactorCols) ELSE d4

ConvertFrame(loaded, adjust_cols, split_col_name, remove_columns) ==
    LET d0 == sort_index(loaded, FALSE)
        d1 == AddFactorColumns(d0, split_col_name)
        d2 == MultiplyColumns(d1, adjust_cols)
        d3 == sort_index(d2, TRUE)
        d4 == CastColumns(d3, DEFAULT_DTYPE_DICT)
    IN  IF remove_columns THEN DropColumns(d4, FactorCols) ELSE d4

(***************************************************************************)
(* The transformation of adjust_price after load.                          *)
(***************************************************************************)
AdjustFrame(loaded, adjust_cols, split_col_name) ==
    LET d0 == sort_index(loaded, FALSE)
        d1 == AddFactorColumns(d0, split_col_name)
        d2 == DivideColumns(d1, adjust_cols)
        d3 == SetColumn(d2, "fwd_div", fwd_div(Column(d2, "dividends")))
        d4 == SetColumn(d3, "retention_rate",
                        [i \in 1..Len(d3) |->
                            retention_rate(d3[i]["fwd_div"], d3[i]["close"])])
        d5 == SetColumn(d4, "accum_retention",
                        accum_retention(Column(d4, "retention_rate")))
    IN  SetColumn(d5, "adj_close",
                  [i \in 1..Len(d5) |->
                      RMul(d5[i]["accum_retention"], d5[i]["close"])])

(***************************************************************************)
(* Paths and the file system.  fs.dirs is the set of existing directories, *)
(* fs.files maps each existing parquet file to the frame it holds.         *)
(***************************************************************************)
Years == 2021..2023

YearStr == (2021 :> "2021") @@ (2022 :> "2022") @@ (2023 :> "2023")

\* '{:02d}'.format(month)
MonthStr == <<"01", "02", "03", "04", "05", "06",
              "07", "08", "09", "10", "11", "12">>

FileName == ("ABC" :> "ABC.parquet") @@ ("XYZ" :> "XYZ.parquet")
            @@ ("NIL" :> "NIL.parquet")

\* int(s) for the strings that are decimal numerals
Numerals ==
    [s \in {YearStr[y] : y \in Years} |-> CHOOSE y \in Years : YearStr[y] = s]
    @@ [s \in {MonthStr[m] : m \in 1..12} |->
            CHOOSE m \in 1..12 : MonthStr[m] = s]

IndexYear(ts) == ts \div 10000
IndexMonth(ts) == (ts \div 100) % 100

Exists(f, path) == path \in f.dirs \/ path \in DOMAIN f.files

PartitionPath(base_path, year, month, ticker) ==
    base_path \o <<YearStr[year], MonthStr[month], FileName[ticker]>>

\* the loop of get_parquet_paths from (year, month) on, for a given ticker
RECURSIVE PathsFrom(_, _, _, _, _, _)
PathsFrom(f, base_path, year, month, last_year, ticker) ==
    IF year > last_year THEN <<>>
    ELSE LET path == PartitionPath(base_path, year, month, ticker)
             rest == IF month = 12
                     THEN PathsFrom(f, base_path, year + 1, 1, last_year, ticker)
                     ELSE PathsFrom(f, base_path, year, month + 1, last_year, ticker)
         IN  IF Exists(f, path) THEN <<path>> \o rest ELSE rest

get_parquet_paths(f, base_path, first_year, last_year, ticker) ==
    PathsFrom(f, base_path, first_year, 1, last_year, ticker)

\* pd.read_parquet(paths): the files' rows, concatenated in path order
RECURSIVE read_parquet(_, _)
read_parquet(f, paths) ==
    IF paths = <<>> THEN <<>>
    ELSE f.files[Head(paths)] \o read_parquet(f, Tail(paths))

\* faulty variant: appends to an existing file instead of replacing it
WriteFileAppend(f, path, df) ==
    [f EXCEPT !.files =
        [p \in (DOMAIN f.files) \cup {path} |->
            IF p # path THEN f.files[p]
            ELSE IF path \in DOMAIN f.files THEN f.files[p] \o df ELSE df]]

\* DataFrame.to_parquet(path): creates or replaces the file
WriteFile(f, path, df) ==
    [f EXCEPT !.files =
        [p \in (DOMAIN f.files) \cup {path} |->
            IF p = path THEN df ELSE f.files[p]]]

(***************************************************************************)
(* Results of a call: None, a frame, a list of results, or an exception.   *)
(***************************************************************************)
None == [kind |-> "None"]
Frame(df) == [kind |-> "DataFrame", df |-> df]
List(items) == [kind |-> "list", items |-> items]
Raise(exc) == [kind |-> "raise", exc |-> exc]

\* faulty variant: an empty frame instead of None for a ticker without data
SkipTickerEmptyFrame(f) == [fs |-> f, ret |-> Frame(<<>>)]

\* "if len(paths) == 0: return"
SkipTicker(f) == [fs |-> f, ret |-> None]

\* the year and month components convert_price_to_raw takes from a source
\* path: path.split('/')[4] and [5], zero-based
PathYear(path_split) == path_split[5]
PathMonth(path_split) == path_split[6]

MonthRows(df, year, month) ==
    LET Keep(r) == IndexYear(r["ts"]) = year /\ IndexMonth(r["ts"]) = month
    IN  SelectSeq(df, Keep)

\* one iteration of the save loop: [fs, exc], exc = "" when it completes
SaveOne(f, path, ticker_df, export_base_path, ticker) ==
    IF Len(path) < 6 THEN [fs |-> f, exc |-> "IndexError"]
    ELSE
    LET year == PathYear(path)
        month == PathMonth(path)
    IN  IF year \notin DOMAIN Numerals \/ month \notin DOMAIN Numerals
        THEN [fs |-> f, exc |-> "ValueError"]
        ELSE
        LET month_df == MonthRows(ticker_df, Numerals[year], Numerals[month])
            year_path == export_base_path \o <<year>>
            month_path == year_path \o <<month>>
            f1 == IF Exists(f, year_path) THEN f
                  ELSE [f EXCEPT !.dirs = @ \cup {year_path}]
            f2 == IF Exists(f1, month_path) THEN f1
                  ELSE [f1 EXCEPT !.dirs = @ \cup {month_path}]
        IN  IF ~Exists(f, year_path) /\ ~Exists(f, export_base_path)
            THEN [fs |-> f, exc |-> "FileNotFoundError"]
            ELSE [fs |-> WriteFile(f2, month_path \o <<FileName[ticker]>>, month_df),
                  exc |-> ""]

RECURSIVE SaveLoop(_, _, _, _, _)
SaveLoop(f, paths, ticker_df, export_base_path, ticker) ==
    IF paths = <<>> THEN [fs |-> f, exc |-> ""]
    ELSE LET one == SaveOne(f, Head(paths), ticker_df, export_base_path, ticker)
         IN  IF one.exc # "" THEN one
             ELSE SaveLoop(one.fs, Tail(paths), ticker_df, export_base_path, ticker)

(***************************************************************************)
(* convert_price_to_raw and adjust_price: [fs, ret] after the call.  args  *)
(* holds the arguments the caller chooses: base_path, export_base_path,    *)
(* years (first_year, last_year), remove_factor_columns and the save flag; *)
(* dtype_dict, adjust_cols and split_col_name keep their defaults.         *)
(***************************************************************************)
ArgPaths(f, ticker, args) ==
    get_parquet_paths(f, args.base_path, args.years[1], args.years[2], ticker)

convert_price_to_raw(f, ticker, args) ==
    LET paths == ArgPaths(f, ticker, args)
    IN  IF Len(paths) = 0 THEN SkipTicker(f)
        ELSE
        LET ticker_df == ConvertFrame(read_parquet(f, paths), DefaultAdjustCols,
                                      SplitColName, args.remove_factor_columns)
        IN  IF args.save_data
            THEN LET out == SaveLoop(f, paths, ticker_df,
                                     args.export_base_path, ticker)
                 IN  [fs |-> out.fs,
                      ret |-> IF out.exc = "" THEN None ELSE Raise(out.exc)]
            ELSE [fs |-> f, ret |-> Frame(ticker_df)]

adjust_price(f, ticker, args) ==
    LET paths == ArgPaths(f, ticker, args)
    IN  IF Len(paths) = 0 THEN SkipTicker(f)
        ELSE [fs |-> f,
              ret |-> Frame(AdjustFrame(read_parquet(f, paths),
                                        DefaultAdjustCols, SplitColName))]

(***************************************************************************)
(* The batch variants: the list comprehension runs the single-ticker call  *)
(* ticker by ticker on the file system the previous calls left; an         *)
(* exception ends the comprehension.                                       *)
(***************************************************************************)
RECURSIVE ConvertEach(_, _, _, _)
ConvertEach(f, ticker_list, res_list, args) ==
    IF ticker_list = <<>> THEN [fs |-> f, ret |-> List(res_list)]
    ELSE LET one == convert_price_to_raw(f, Head(ticker_list), args)
         IN  IF one.ret.kind = "raise" THEN one
             ELSE ConvertEach(one.fs, Tail(ticker_list),
                              Append(res_list, one.ret), args)

convert_price_to_raw_multiple(f, ticker_list, args) ==
    LET all == ConvertEach(f, ticker_list, <<>>, args)
    IN  IF all.ret.kind = "raise" THEN all
        ELSE IF ~args.save_data THEN all
        ELSE [fs |-> all.fs, ret |-> None]

RECURSIVE AdjustEach(_, _, _, _)
AdjustEach(f, ticker_list, res, args) ==
    IF ticker_list = <<>> THEN [fs |-> f, ret |-> List(res)]
    ELSE LET one == adjust_price(f, Head(ticker_list), args)
         IN  AdjustEach(one.fs, Tail(ticker_list), Append(res, one.ret), args)

adjust_price_multiple(f, ticker_list, args) ==
    LET all == AdjustEach(f, ticker_list, <<>>, args)
    IN  IF ~args.save_result THEN all ELSE [fs |-> all.fs, ret |-> None]

(***************************************************************************)
(* The stored data.  Ticker ABC holds any series over consecutive Dates:    *)
(* either at most MaxLen records with dividends and 2-for-1 splits, or at  *)
(* most MaxSplitLen records with split ratios 1 and 2 and no dividend.     *)
(* Ticker XYZ holds a fixed series and ticker NIL holds nothing.           *)
(***************************************************************************)
Tickers == {"ABC", "XYZ", "NIL"}

Dates == <<20210115, 20220115, 20220210, 20220305>>

CloseOf == (20210115 :> 40) @@ (20220115 :> 50) @@ (20220210 :> 101)
           @@ (20220305 :> 80)

Row(ticker, ts, close, div, split) ==
    [c \in (DOMAIN DEFAULT_DTYPE_DICT) \cup {"ts"} |->
        CASE c = "ts" -> ts
          [] c = "ticker" -> ticker
          [] c = "open" -> R(close - 1)
          [] c = "high" -> R(close + 2)
          [] c = "low" -> R(close - 2)
          [] c = "close" -> R(close)
          [] c = "volume" -> R(1000)
          [] c = "adj close" -> R(close)
          [] c = "dividends" -> R(div)
          [] c = "stock splits" -> R(split)]

RECURSIVE SetToAscSeq(_)
SetToAscSeq(S) ==
    IF S = {} THEN <<>>
    ELSE LET m == CHOOSE x \in S : \A y \in S : x <= y
         IN  <<m>> \o SetToAscSeq(S \ {m})

SeriesOf(ticker, D, div, split) ==
    LET ds == SetToAscSeq(D)
    IN  [i \in 1..Len(ds) |->
            Row(ticker, ds[i], CloseOf[ds[i]], div[ds[i]], split[ds[i]])]

XYZSeries == <<Row("XYZ", 20220115, 30, 1, 0), Row("XYZ", 20220210, 12, 0, 2)>>

SourcePaths == {<<"", "data", "set", "adj">>, <<".", "data", "set">>}

ExportPath == <<"", "data", "set", "raw">>

Prefixes(path) == {SubSeq(path, 1, k) : k \in 1..Len(path)}

\* the partition files of a series stored under root, one per year and month
StoreFiles(root, ticker, series) ==
    LET yms == {<<IndexYear(series[i]["ts"]), IndexMonth(series[i]["ts"])>> :
                    i \in 1..Len(series)}
    IN  [p \in {PartitionPath(root, ym[1], ym[2], ticker) : ym \in yms} |->
            LET ym == CHOOSE ym \in yms :
                          PartitionPath(root, ym[1], ym[2], ticker) = p
            IN  MonthRows(series, ym[1], ym[2])]

InitFs(root, abc) ==
    LET files == StoreFiles(root, "ABC", abc) @@ StoreFiles(root, "XYZ", XYZSeries)
    IN  [files |-> files,
         dirs |-> Prefixes(root) \cup Prefixes(ExportPath)
                  \cup UNION {Prefixes(SubSeq(p, 1, Len(p) - 1)) : p \in DOMAIN files}]

NoCall == [fn |-> "none"]

Init ==
    /\ \E root \in SourcePaths, first \in 1..Len(Dates), n \in 0..MaxSplitLen :
         LET D == {Dates[i] : i \in first..(first + n - 1)}
         IN  /\ first + n - 1 <= Len(Dates)
             /\ \E div \in [D -> {0, 1}], split \in [D -> {0, 1, 2}] :
                  /\ \/ /\ n <= MaxLen
                        /\ \A d \in D : split[d] \in {0, 2}
                     \/ \A d \in D : div[d] = 0 /\ split[d] \in {1, 2}
                  /\ fs = InitFs(root, SeriesOf("ABC", D, div, split))
                  /\ base = root
    /\ ret = None
    /\ lastCall = NoCall
    /\ calls = 0

(***************************************************************************)
(* Calls.  After the first call only a repetition of it is explored, and   *)
(* only when it persists (a call that does not persist changes nothing).   *)
(***************************************************************************)
YearRanges == {<<2021, 2022>>, <<2022, 2023>>}

TickerLists == {<<"XYZ", "NIL", "ABC">>}

Persists(call) ==
    /\ call.fn \in {"convert_price_to_raw", "convert_price_to_raw_multiple"}
    /\ call.save_data

MayCall(call) ==
    /\ calls < MaxCalls
    /\ calls = 0 \/ (call = lastCall /\ Persists(call))

Returns(call, out) ==
    /\ fs' = out.fs
    /\ ret' = out.ret
    /\ base' = base
    /\ lastCall' = call
    /\ calls' = calls + 1

ConvertPriceToRaw ==
    \E ticker \in {"ABC", "NIL"}, in_place \in BOOLEAN,
       years \in YearRanges, rfc \in BOOLEAN, save_data \in BOOLEAN :
        LET call == [fn |-> "convert_price_to_raw", ticker |-> ticker,
                     base_path |-> base,
                     export_base_path |->
                        IF in_place THEN base ELSE ExportPath,
                     years |-> years, remove_factor_columns |-> rfc,
                     save_data |-> save_data]
        IN  MayCall(call) /\ Returns(call, convert_price_to_raw(fs, ticker, call))

AdjustPrice ==
    \E ticker \in {"ABC", "NIL"}, years \in YearRanges,
       save_result \in BOOLEAN :
        LET call == [fn |-> "adjust_price", ticker |-> ticker,
                     base_path |-> base, export_base_path |-> ExportPath,
                     years |-> years, save_result |-> save_result]
        IN  MayCall(call) /\ Returns(call, adjust_price(fs, ticker, call))

ConvertPriceToRawMultiple ==
    \E ticker_list \in TickerLists,
       in_place \in BOOLEAN, years \in YearRanges, save_data \in BOOLEAN :
        LET call == [fn |-> "convert_price_to_raw_multiple",
                     ticker_list |-> ticker_list, base_path |-> base,
                     export_base_path |->
                        IF in_place THEN base ELSE ExportPath,
                     years |-> years, remove_factor_columns |-> TRUE,
                     save_data |-> save_data]
        IN  /\ MayCall(call)
            /\ Returns(call, convert_price_to_raw_multiple(fs, ticker_list, call))

AdjustPriceMultiple ==
    \E ticker_list \in TickerLists,
       years \in YearRanges, save_result \in BOOLEAN :
        LET call == [fn |-> "adjust_price_multiple",
                     ticker_list |-> ticker_list, base_path |-> base,
                     export_base_path |-> ExportPath, years |-> years,
                     save_result |-> save_result]
        IN  /\ MayCall(call)
            /\ Returns(call, adjust_price_multiple(fs, ticker_list, call))

Next ==
    \/ ConvertPriceToRaw
    \/ AdjustPrice
    \/ ConvertPriceToRawMultiple
    \/ AdjustPriceMultiple

Spec == Init /\ [][Next]_vars

(***************************************************************************)
(* Vocabulary of the properties, stated on timestamps rather than on row   *)
(* positions.                                                              *)
(***************************************************************************)
Range(df) == {df[i] : i \in 1..Len(df)}

StoredCols == (DOMAIN DEFAULT_DTYPE_DICT) \cup {"ts"}

Original(df) == [i \in 1..Len(df) |-> [c \in StoredCols |-> df[i][c]]]

Ascending(df) == \A i \in 1..(Len(df) - 1) : df[i]["ts"] < df[i + 1]["ts"]

NewestFirst(df) ==
    [i \in 1..Len(df) |->
        CHOOSE r \in Range(df) :
            Cardinality({q \in Range(df) : q["ts"] > r["ts"]}) = i - 1]

Later(df, ts) == {q \in Range(df) : q["ts"] > ts}

NotOlder(df, ts) == {q \in Range(df) : q["ts"] >= ts}

SplitFactor(x) == IF x[1] = 0 THEN R(1) ELSE x

RECURSIVE ProdOfSplits(_)
ProdOfSplits(S) ==
    IF S = {} THEN R(1)
    ELSE LET r == CHOOSE r \in S : TRUE
         IN  RMul(SplitFactor(r["stock splits"]), ProdOfSplits(S \ {r}))

RECURSIVE ProdOfColumn(_, _)
ProdOfColumn(S, c) ==
    IF S = {} THEN R(1)
    ELSE LET r == CHOOSE r \in S : TRUE
         IN  RMul(r[c], ProdOfColumn(S \ {r}, c))

IsPrefix(a, b) == Len(a) <= Len(b) /\ SubSeq(b, 1, Len(a)) = a

\* the series a call loads for a ticker from the file system f
CallInput(f, call, ticker) == read_parquet(f, ArgPaths(f, ticker, call))

ReturnedFrame(fn) == lastCall.fn = fn /\ ret.kind = "DataFrame"

NoEvents(X) ==
    \A x \in Range(X) :
        x["stock splits"] \in {R(0), R(1)} /\ x["dividends"] = R(0)

IsSingle(call) == call.fn \in {"convert_price_to_raw", "adjust_price"}

(***************************************************************************)
(* C1: for a stored series X whose split ratios are all 0 or 1 and whose   *)
(* dividends are all 0, convert_price_to_raw applied to the result of      *)
(* adjust_price is X again, and adjust_price applied to the result of      *)
(* convert_price_to_raw is X again: same records, same order, same values  *)
(* in the original columns.                                                *)
(***************************************************************************)
C1_RoundTrip ==
    /\ ReturnedFrame("adjust_price") =>
         LET X == CallInput(fs, lastCall, lastCall.ticker)
         IN  NoEvents(X) =>
               Original(ConvertFrame(ret.df, DefaultAdjustCols,
                                     SplitColName, TRUE)) = X
    /\ ReturnedFrame("convert_price_to_raw") =>
         LET X == CallInput(fs, lastCall, lastCall.ticker)
         IN  NoEvents(X) =>
               Original(AdjustFrame(ret.df, DefaultAdjustCols,
                                    SplitColName)) = X

(***************************************************************************)
(* C2: in the frames of convert_price_to_raw and adjust_price, with the    *)
(* records newest first, adjust_factor is 1 for a split ratio of 0 and the *)
(* split ratio otherwise, and cum_adj_factor of a row is the product of    *)
(* the adjust factors of the rows before it (1 on the newest row); the     *)
(* split ratios [1, 1, 2, 1] give the cumulative factors [1, 1, 1, 2].     *)
(***************************************************************************)
HasFactorColumns ==
    \/ ReturnedFrame("adjust_price")
    \/ ReturnedFrame("convert_price_to_raw") /\ ~lastCall.remove_factor_columns

C2_Factors ==
    HasFactorColumns =>
        LET df == NewestFirst(ret.df)
        IN  /\ \A i \in 1..Len(df) :
                 /\ df[i]["adjust_factor"] = SplitFactor(df[i]["stock splits"])
                 /\ df[i]["cum_adj_factor"] =
                        ProdOfColumn({df[j] : j \in 1..(i - 1)}, "adjust_factor")
            /\ Column(df, "stock splits") = <<R(1), R(1), R(2), R(1)>> =>
                 Column(df, "cum_adj_factor") = <<R(1), R(1), R(1), R(2)>>

C2_Witness ==
    /\ ReturnedFrame("convert_price_to_raw")
    /\ ~lastCall.remove_factor_columns
    /\ Column(NewestFirst(ret.df), "stock splits") = <<R(1), R(1), R(2), R(1)>>
    /\ Column(NewestFirst(ret.df), "cum_adj_factor") = <<R(1), R(1), R(1), R(2)>>

(***************************************************************************)
(* C3: convert_price_to_raw returns the records in ascending timestamp     *)
(* order, and each value in an adjusted column is the loaded value times   *)
(* the product of the split ratios (0 counted as 1) of the records with a  *)
(* strictly later timestamp.                                               *)
(***************************************************************************)
C3_RawPrices ==
    ReturnedFrame("convert_price_to_raw") =>
        LET X == CallInput(fs, lastCall, lastCall.ticker)
        IN  /\ Ascending(ret.df)
            /\ Len(ret.df) = Len(X)
            /\ \A x \in Range(X) :
                 \E r \in Range(ret.df) :
                    /\ r["ts"] = x["ts"]
                    /\ \A c \in DefaultAdjustCols :
                          r[c] = RMul(x[c], ProdOfSplits(Later(X, x["ts"])))

\* one 2-for-1 split in 2022-02: January doubled, February and March unchanged
C3_Witness ==
    /\ ReturnedFrame("convert_price_to_raw")
    /\ LET X == CallInput(fs, lastCall, lastCall.ticker)
       IN  /\ Column(X, "ts") = <<20220115, 20220210, 20220305>>
           /\ Column(X, "stock splits") = <<R(0), R(2), R(0)>>
           /\ Column(X, "close") = <<R(50), R(101), R(80)>>
    /\ Column(ret.df, "close") = <<R(100), R(101), R(80)>>

(***************************************************************************)
(* C4: when get_parquet_paths finds no partition file of the ticker in the *)
(* year range, convert_price_to_raw and adjust_price return None, raise    *)
(* nothing and leave the file system as it was, whatever the save flag.    *)
(***************************************************************************)
C4_NoData ==
    [][ ( /\ calls' = calls + 1
          /\ IsSingle(lastCall')
          /\ ArgPaths(fs, lastCall'.ticker, lastCall') = <<>> )
        => (ret' = None /\ fs' = fs) ]_vars

\* ABC has data, but none in the year range, and persistence is requested
C4_Witness ==
    /\ lastCall.fn = "convert_price_to_raw"
    /\ lastCall.save_data
    /\ lastCall.ticker = "ABC"
    /\ \E p \in DOMAIN fs.files : p[Len(p)] = FileName["ABC"]
    /\ ArgPaths(fs, "ABC", lastCall) = <<>>
    /\ ret = None

(***************************************************************************)
(* C5: a batch call returns None when persistence is requested; otherwise  *)
(* it returns a list with one entry per input ticker, in input order,      *)
(* entry k being the single-ticker result for ticker k (None for a ticker  *)
(* without data), whatever the other tickers of the list are.              *)
(***************************************************************************)
C5_Batch ==
    /\ lastCall.fn = "convert_price_to_raw_multiple" =>
         IF lastCall.save_data THEN ret = None
         ELSE /\ ret.kind = "list"
              /\ Len(ret.items) = Len(lastCall.ticker_list)
              /\ \A k \in 1..Len(lastCall.ticker_list) :
                    ret.items[k] =
                        convert_price_to_raw(fs, lastCall.ticker_list[k],
                                             lastCall).ret
    /\ lastCall.fn = "adjust_price_multiple" =>
         IF lastCall.save_result THEN ret = None
         ELSE /\ ret.kind = "list"
              /\ Len(ret.items) = Len(lastCall.ticker_list)
              /\ \A k \in 1..Len(lastCall.ticker_list) :
                    ret.items[k] =
                        adjust_price(fs, lastCall.ticker_list[k], lastCall).ret

(***************************************************************************)
(* C6: running convert_price_to_raw with save_data=True a second time with *)
(* the same arguments leaves every destination partition file with the     *)
(* contents it had after the first run.                                    *)
(***************************************************************************)
DestFiles(f, export_base_path) ==
    [p \in {q \in DOMAIN f.files : IsPrefix(export_base_path, q)} |-> f.files[p]]

SecondRun ==
    /\ calls' = calls + 1
    /\ lastCall' = lastCall
    /\ lastCall.fn = "convert_price_to_raw"
    /\ lastCall.save_data

C6_Idempotent ==
    [][ SecondRun =>
          DestFiles(fs', lastCall.export_base_path)
            = DestFiles(fs, lastCall.export_base_path) ]_vars

\* C6 as amended: the same, provided the destination is not the source
\* directory (the first run then leaves the source partition files as they
\* were)
C6_IdempotentApart ==
    [][ (SecondRun /\ lastCall.export_base_path # lastCall.base_path) =>
          DestFiles(fs', lastCall.export_base_path)
            = DestFiles(fs, lastCall.export_base_path) ]_vars

C6_Witness ==
    /\ calls = 2
    /\ lastCall.fn = "convert_price_to_raw"
    /\ lastCall.save_data
    /\ lastCall.export_base_path # lastCall.base_path
    /\ ret = None
    /\ \E p \in DOMAIN fs.files :
          /\ IsPrefix(lastCall.export_base_path, p)
          /\ \E r \in Range(fs.files[p]) : r["close"] = R(100)

(***************************************************************************)
(* C7: the frame adjust_price returns is in ascending timestamp order.     *)
(***************************************************************************)
C7_Ascending == ReturnedFrame("adjust_price") => Ascending(ret.df)

(***************************************************************************)
(* C8: in adjust_price, with the records newest first, fwd_div of row i is *)
(* the split-adjusted dividend of the next more-recent row i-1, and        *)
(* fwd_div of the earliest record (the last row) is 0.                     *)
(***************************************************************************)
FwdDivOfNewerRow ==
    LET X == CallInput(fs, lastCall, lastCall.ticker)
        df == NewestFirst(ret.df)
        in == NewestFirst(X)
    IN  \A i \in 2..Len(df) :
           /\ df[i]["fwd_div"] = df[i - 1]["dividends"]
           /\ df[i]["fwd_div"] =
                RDiv(in[i - 1]["dividends"],
                     ProdOfSplits(Later(X, in[i - 1]["ts"])))

C8_FwdDiv ==
    ReturnedFrame("adjust_price") =>
        /\ FwdDivOfNewerRow
        /\ LET df == NewestFirst(ret.df)
           IN  Len(df) >= 1 => df[Len(df)]["fwd_div"] = R(0)

\* C8 as amended: fwd_div of row i is the split-adjusted dividend of the next
\* more-recent row i-1, and fwd_div of the newest record (the first row) is 0
C8_FwdDivNewestZero ==
    ReturnedFrame("adjust_price") =>
        /\ FwdDivOfNewerRow
        /\ LET df == NewestFirst(ret.df)
           IN  Len(df) >= 1 => df[1]["fwd_div"] = R(0)

\* the earliest of three records carries the dividend 1 of the middle one,
\* halved by the 2-for-1 split of the newest
C8_Witness ==
    /\ ReturnedFrame("adjust_price")
    /\ Len(ret.df) = 3
    /\ LET df == NewestFirst(ret.df)
       IN  /\ df[1]["fwd_div"] = R(0)
           /\ df[1]["stock splits"] = R(2)
           /\ df[3]["fwd_div"] = <<1, 2>>

(***************************************************************************)
(* C9: in adjust_price, retention_rate is 1 - fwd_div / split-adjusted     *)
(* close, accum_retention is the product of the retention rates of the     *)
(* record and of all more-recent records, and adj_close is accum_retention *)
(* times the split-adjusted close; fwd_div 1 on a close of 101 gives       *)
(* 100/101, and without dividends adj_close equals the split-adjusted      *)
(* close on every record.                                                  *)
(***************************************************************************)
C9_Retention ==
    ReturnedFrame("adjust_price") =>
        LET X == CallInput(fs, lastCall, lastCall.ticker)
        IN  /\ \A r \in Range(ret.df) :
                 \E x \in Range(X) :
                    LET close == RDiv(x["close"], ProdOfSplits(Later(X, x["ts"])))
                    IN  /\ x["ts"] = r["ts"]
                        /\ r["close"] = close
                        /\ r["retention_rate"] =
                              RSub(R(1), RDiv(r["fwd_div"], close))
                        /\ r["accum_retention"] =
                              ProdOfColumn(NotOlder(ret.df, r["ts"]),
                                           "retention_rate")
                        /\ r["adj_close"] = RMul(r["accum_retention"], close)
                        /\ (r["fwd_div"] = R(1) /\ close = R(101)) =>
                              r["retention_rate"] = <<100, 101>>
            /\ (\A x \in Range(X) : x["dividends"] = R(0)) =>
                 \A r \in Range(ret.df) : r["adj_close"] = r["close"]

\* a dividend of 1 after a close of 101, and an older record whose
\* cumulative retention is the product of two retention rates
C9_Witness ==
    /\ ReturnedFrame("adjust_price")
    /\ \E r \in Range(ret.df) :
          /\ r["fwd_div"] = R(1)
          /\ r["close"] = R(101)
          /\ r["retention_rate"] = <<100, 101>>
    /\ \E r \in Range(ret.df) :
          /\ r["retention_rate"] = <<49, 50>>
          /\ r["accum_retention"] = RMul(<<100, 101>>, <<49, 50>>)

(***************************************************************************)
(* C10: when convert_price_to_raw persists, for every base path and every  *)
(* discovered source partition base_path/{year}/{month}/{ticker}.parquet   *)
(* it writes the one file export_base_path/{year}/{month}/{ticker}.parquet *)
(* with that year and month, creating the year and month directories when  *)
(* missing; the file holds exactly the output records of that year and     *)
(* month, and every output record is written to exactly one file.          *)
(***************************************************************************)
C10_Partitions ==
    [][ ( /\ calls' = calls + 1
          /\ lastCall'.fn = "convert_price_to_raw"
          /\ lastCall'.save_data )
        => LET call == lastCall'
               paths == ArgPaths(fs, call.ticker, call)
               out == ConvertFrame(read_parquet(fs, paths), DefaultAdjustCols,
                                   SplitColName, call.remove_factor_columns)
               Dest(p) == call.export_base_path
                            \o SubSeq(p, Len(p) - 2, Len(p))
               dests == {Dest(paths[i]) : i \in 1..Len(paths)}
           IN  /\ DOMAIN fs'.files = (DOMAIN fs.files) \cup dests
               /\ \A p \in (DOMAIN fs.files) \ dests : fs'.files[p] = fs.files[p]
               /\ \A i \in 1..Len(paths) :
                    LET p == paths[i]
                        d == Dest(p)
                    IN  /\ SubSeq(d, 1, Len(d) - 1) \in fs'.dirs
                        /\ SubSeq(d, 1, Len(d) - 2) \in fs'.dirs
                        /\ fs'.files[d] =
                              MonthRows(out, Numerals[p[Len(p) - 2]],
                                        Numerals[p[Len(p) - 1]])
               /\ \A r \in Range(out) :
                    Cardinality({d \in dests : r \in Range(fs'.files[d])}) = 1
      ]_vars

====
